---- MODULE Spec2Model ----
(***************************************************************************)
(* Real-time chat room protocol of the crypto onboarding app               *)
(* (api/socket/index.ts): room membership, message send / persist /        *)
(* broadcast, history replay on join.  Every awaited database call is a    *)
(* separate step, so handlers of different events interleave exactly where *)
(* the code awaits.                                                        *)
(***************************************************************************)
EXTENDS Integers, Sequences, FiniteSets, TLC

\* ------------------------------------------------------------------ bounds
\* client events (join_room, send_message, leave_room, disconnect) per run
MaxEvents == 2
\* client events per run that starts from the seeded table
MaxSeededEvents == 1
\* database calls that fail per run
MaxFaults == 1
\* rows already in chat_messages when a seeded run starts
SeedRows == 53

\* ------------------------------------------------------- program constants
\* .limit(50) of the history query
HistoryLimit == 50
\* message.length > 500
MaxMessageLength == 500

\* ------------------------------------------------------------ input domains
\* live chat-namespace sockets; a socket's id is the session name
Sessions == {"s1", "s2"}
\* coin identifiers used as room names
Coins == {"bitcoin", "ethereum"}
\* a missing / empty coinId (falsy in the handlers' checks)
NoCoin == ""
CoinIdInputs == Coins \cup {NoCoin}

\* socket.user.sub of a session, which is also the users.id the lookup returns
SubOf(s) == IF s = "s1" THEN "u1" ELSE "u2"
NoUser == "null"

\* A message body is kept by its shape: leading blanks, non-blank core,
\* trailing blanks.  Its length is the sum; trim() keeps the core only.
Body(lead, core, trail) == [lead |-> lead, core |-> core, trail |-> trail]
BodyLength(b) == b.lead + b.core + b.trail
Trim(b) == Body(0, b.core, 0)
\* exactly at the cap, padded by one blank on each side
PaddedBody == Body(1, MaxMessageLength - 2, 1)
\* blanks only: empty after trimming
BlankBody == Body(2, 0, 0)
\* one character over the cap
OverBody == Body(0, MaxMessageLength + 1, 0)
\* (coinId, message) pairs a client sends
SendInputs ==
    {<<c, PaddedBody>> : c \in CoinIdInputs}
        \cup {<<"bitcoin", BlankBody>>, <<"bitcoin", OverBody>>}

VARIABLES
    status,         \* status[s]: "idle" (no connection yet), "connecting",
                    \* "refused", "hung", "connected" or "closed"
    rooms,          \* rooms[s]: socket.rooms of session s (own id included)
    chat_messages,  \* the chat_messages table, in insertion order
    nextId,         \* the id the next inserted row gets
    now,            \* the database clock behind DEFAULT NOW()
    handlers,       \* async handler invocations suspended at an await
    inbox,          \* inbox[s]: events delivered to session s, in order
    joined,         \* the room a session last joined and has not left
    completed,      \* ids of inserted rows, in the order the inserts returned
    budget,         \* external events (client events, timer ticks) still to come
    faults,         \* database calls that may still fail
    sweeps,         \* invocations of the hourly cleanup callback in flight
    sweeper,        \* the cleanup interval timer: "armed" or "dead"
    sweepLog,       \* what the finished cleanup callbacks logged, in order
    cache,          \* the response cache of the coins router: key -> entry
    clock,          \* Date.now() of the server process, in milliseconds
    urls,           \* the HTTP requests the clients of this run issue
    requests,       \* HTTP request handlers suspended at an await
    responses,      \* the HTTP responses sent, in order
    upstreamCalls,  \* the calls made to the upstream market-data API, in order
    users,          \* the users table, in insertion order
    auths,          \* authentications (token checks) suspended at an await
    authLog,        \* how each finished authentication ended, in order
    manager,        \* the browser's SocketManager: socket, chatSocket, token,
                    \* eventListeners
    opened,         \* the sockets io() has created in the browser, in order
    mounts          \* mounts[c]: the useSocket effect of component c

\* the chat namespace's state and the chat_messages table
chatVars == <<status, rooms, chat_messages, nextId, now, handlers, inbox,
              joined, completed>>
\* the retention sweep's own state
sweepVars == <<sweeps, sweeper, sweepLog>>
\* the market-data gateway's state
cacheVars == <<cache, clock, urls, requests, responses, upstreamCalls>>
\* the identity resolver's state
authVars == <<users, auths, authLog>>
\* the browser client's state
clientVars == <<manager, opened, mounts>>
\* what no chat handler touches
notChat == <<sweepVars, cacheVars, authVars, clientVars>>
\* what the retention sweep's callback does not touch
notSweep == <<cacheVars, authVars, clientVars>>
\* what no market-data handler touches
notCache == <<chatVars, sweepVars, authVars, clientVars>>

vars == <<chatVars, budget, faults, sweepVars, cacheVars, authVars, clientVars>>

NoRoom == "none"

\* ------------------------------------------------------------ the database
Row(id, coin, user, content, at, deleted) ==
    [id |-> id, coin_id |-> coin, user_id |-> user, content |-> content,
     created_at |-> at, is_deleted |-> deleted]

\* creation times of the seeded rows come in pairs, so ties exist
SeedTime(i) == (i + 1) \div 2
\* the newest seeded row and one in the middle are soft-deleted
SeedDeleted(i) == i = SeedRows \/ i = SeedRows \div 2
SeedTable ==
    [i \in 1..SeedRows |->
        Row(i, "bitcoin", "u1", Body(0, 5, 0), SeedTime(i), SeedDeleted(i))]

Min(a, b) == IF a < b THEN a ELSE b

\* .order('created_at', { ascending: false }): ties come in either id order
OrderedBefore(tie, r1, r2) ==
    \/ r1.created_at > r2.created_at
    \/ /\ r1.created_at = r2.created_at
       /\ IF tie = "asc" THEN r1.id < r2.id ELSE r1.id > r2.id

\* a history filter that forgets the soft-delete flag
HistoryFilterAnyRow(coinId, r) == r.coin_id = coinId

\* .eq('coin_id', coinId).eq('is_deleted', false)
HistoryFilter(coinId, r) == r.coin_id = coinId /\ r.is_deleted = FALSE

\* .limit(50)
HistoryLimited(sorted) == SubSeq(sorted, 1, Min(Len(sorted), HistoryLimit))

\* the history query of join_room, newest first
HistoryQuery(table, coinId, tie) ==
    HistoryLimited(
        SortSeq(SelectSeq(table, LAMBDA r : HistoryFilter(coinId, r)),
                LAMBDA r1, r2 : OrderedBefore(tie, r1, r2)))

\* messages?.reverse()
Reverse(s) == [i \in 1..Len(s) |-> s[Len(s) + 1 - i]]

\* ----------------------------------------------------------------- events
NoMessage == [id |-> 0, coinId |-> "", content |-> Body(0, 0, 0),
              createdAt |-> 0, userId |-> ""]

FormatMessage(r) ==
    [id |-> r.id, coinId |-> r.coin_id, content |-> r.content,
     createdAt |-> r.created_at, userId |-> r.user_id]

Event(type, coinId, message, messages, username, text) ==
    [type |-> type, coinId |-> coinId, message |-> message,
     messages |-> messages, username |-> username, text |-> text]

ErrorEvent(text) == Event("error", "", NoMessage, <<>>, "", text)
MessageEvent(r) == Event("message", r.coin_id, FormatMessage(r), <<>>, "", "")
RoomJoinedEvent(coinId, rows) ==
    Event("room_joined", coinId, NoMessage,
          [i \in 1..Len(rows) |-> FormatMessage(rows[i])], "", "")
UserJoinedEvent(s) == Event("user_joined", "", NoMessage, <<>>, s, "")
UserLeftEvent(s) == Event("user_left", "", NoMessage, <<>>, s, "")

\* ----------------------------------------------------- socket.io primitives
\* a transport that hands a packet over ahead of the ones already queued
DeliverFirst(box, to, e) ==
    [t \in Sessions |->
        IF t \in to /\ status[t] = "connected" THEN <<e>> \o box[t] ELSE box[t]]

\* a packet is appended to the stream of every addressee whose connection
\* is open
Deliver(box, to, e) ==
    [t \in Sessions |->
        IF t \in to /\ status[t] = "connected" THEN Append(box[t], e) ELSE box[t]]

\* an emit on the namespace instead of on the socket
NamespaceEmit(box, s, e) == Deliver(box, Sessions, e)

\* socket.emit(...)
SocketEmit(box, s, e) == Deliver(box, {s}, e)
\* chatNamespace.to(room): every socket in the room
NamespaceTo(rm, room) == {t \in Sessions : room \in rm[t]}
\* socket.to(room): every socket in the room except the emitting one
SocketTo(rm, s, room) == NamespaceTo(rm, room) \ {s}

\* if (!coinId)
Truthy(coinId) == coinId # NoCoin
\* !message?.trim()
BlankMessage(message) == BodyLength(Trim(message)) = 0
\* a length check that is off by one
TooLongOffByOne(message) == BodyLength(message) > MaxMessageLength + 1

\* message.length > 500
TooLong(message) == BodyLength(message) > MaxMessageLength

\* ---------------------------------------------------------------- handlers
Handler(kind, s, coinId, body, pc) ==
    [kind |-> kind, sess |-> s, coinId |-> coinId, body |-> body, pc |-> pc,
     outcome |-> "pending", userId |-> NoUser, data |-> <<>>]

Remove(seq, i) == SubSeq(seq, 1, i - 1) \o SubSeq(seq, i + 1, Len(seq))

\* a row of the users table; the model names a user's id after its subject
UserRow(sub) == [id |-> sub, auth0_sub |-> sub]
\* the users table once both sessions' subjects have been seen
SeedUsers == <<UserRow(SubOf("s1")), UserRow(SubOf("s2"))>>

\* the components that call useSocket
Components == {"AppContent", "Chat", "CoinDetails"}
\* a socket reference that is null
NoSocket == 0
\* the page right after load: the singleton SocketManager as constructed,
\* no socket created, no component mounted, no token request under way
InitBrowser ==
    /\ manager = [socket |-> NoSocket, chatSocket |-> NoSocket, token |-> "null",
                  eventListeners |-> {}]
    /\ opened = <<>>
    /\ mounts = [c \in Components |-> [mounted |-> FALSE, fetching |-> 0]]

\* Observation starts with every session connected, its handlers idle, and
\* each session either in no room yet or already settled in a room.
InitServer ==
    /\ status = [s \in Sessions |-> "connected"]
    /\ joined \in [Sessions -> {NoRoom, "bitcoin"}]
    /\ rooms = [s \in Sessions |->
                   IF joined[s] = NoRoom THEN {s} ELSE {s, joined[s]}]
    /\ handlers = <<>>
    /\ inbox = [s \in Sessions |-> <<>>]
    /\ completed = <<>>
    /\ faults = MaxFaults
    /\ sweeps = <<>>
    /\ sweeper = "armed"
    /\ sweepLog = <<>>
    /\ users = SeedUsers
    /\ auths = <<>>
    /\ authLog = <<>>
    /\ InitBrowser

\* the coins router right after module load: an empty cache, nothing in
\* flight
InitGateway ==
    /\ cache = {}
    /\ clock = 0
    /\ requests = <<>>
    /\ responses = <<>>
    /\ upstreamCalls = <<>>

\* a fresh database
Init ==
    /\ InitServer
    /\ InitGateway
    /\ urls = {}
    /\ chat_messages = <<>>
    /\ nextId = 1
    /\ now = 0
    /\ budget = MaxEvents

\* a database that has been in use: room bitcoin holds more rows than the
\* history limit
InitSeeded ==
    /\ InitServer
    /\ InitGateway
    /\ urls = {}
    /\ chat_messages = SeedTable
    /\ nextId = SeedRows + 1
    /\ now = SeedTime(SeedRows)
    /\ budget = MaxSeededEvents

\* a database call fails
Fault ==
    /\ faults > 0
    /\ faults' = faults - 1

ClientEvent(s) ==
    /\ status[s] = "connected"
    /\ budget > 0
    /\ budget' = budget - 1

\* a join_room that forgets to leave the previous rooms
KeepAllRooms(s) == rooms[s]

\* rooms.forEach(room => { if (room !== socket.id) socket.leave(room) })
LeaveAllPreviousRooms(s) == {room \in rooms[s] : ~(room # s)}

\* join_room up to its await
JoinRoom(s, coinId) ==
    /\ ClientEvent(s)
    /\ IF ~Truthy(coinId)
       THEN /\ inbox' = SocketEmit(inbox, s, ErrorEvent("Coin ID is required"))
            /\ UNCHANGED <<rooms, handlers, joined>>
       ELSE /\ rooms' = [rooms EXCEPT ![s] = LeaveAllPreviousRooms(s) \cup {coinId}]
            /\ handlers' = Append(handlers,
                                  Handler("join", s, coinId, Body(0, 0, 0), "fetch"))
            /\ joined' = [joined EXCEPT ![s] = coinId]
            /\ UNCHANGED inbox
    /\ UNCHANGED <<status, chat_messages, nextId, now, completed, faults>>
    /\ UNCHANGED notChat

\* the database answers the history query
FetchExec(i) ==
    /\ i \in 1..Len(handlers)
    /\ handlers[i].pc = "fetch"
    /\ \/ \E tie \in {"asc", "desc"} :
            /\ handlers' = [handlers EXCEPT ![i] =
                   [@ EXCEPT !.pc = "fetched", !.outcome = "ok",
                             !.data = HistoryQuery(chat_messages,
                                                   handlers[i].coinId, tie)]]
            /\ UNCHANGED faults
       \/ \E out \in {"error", "throw"} :
            /\ Fault
            /\ handlers' = [handlers EXCEPT ![i] =
                   [@ EXCEPT !.pc = "fetched", !.outcome = out]]
    /\ UNCHANGED <<status, rooms, chat_messages, nextId, now, inbox, joined,
                   completed, budget>>
    /\ UNCHANGED notChat

\* a join_room that sends the snapshot whatever the history query returned
JoinReplyAlwaysSnapshot(h) ==
    Deliver(SocketEmit(inbox, h.sess, RoomJoinedEvent(h.coinId, Reverse(h.data))),
            SocketTo(rooms, h.sess, h.coinId), UserJoinedEvent(h.sess))

\* what join_room emits once the history query has returned
JoinReply(h) ==
    CASE h.outcome = "error" ->
            SocketEmit(inbox, h.sess, ErrorEvent("Failed to load messages"))
      [] h.outcome = "throw" ->
            SocketEmit(inbox, h.sess, ErrorEvent("Failed to join room"))
      [] OTHER ->
            Deliver(SocketEmit(inbox, h.sess,
                               RoomJoinedEvent(h.coinId, Reverse(h.data))),
                    SocketTo(rooms, h.sess, h.coinId), UserJoinedEvent(h.sess))

\* join_room after its await
JoinResume(i) ==
    /\ i \in 1..Len(handlers)
    /\ handlers[i].pc = "fetched"
    /\ inbox' = JoinReply(handlers[i])
    /\ handlers' = Remove(handlers, i)
    /\ UNCHANGED <<status, rooms, chat_messages, nextId, now, joined, completed,
                   budget, faults>>
    /\ UNCHANGED notChat

\* send_message up to its first await
SendMessage(s, coinId, message) ==
    /\ ClientEvent(s)
    /\ IF ~Truthy(coinId) \/ BlankMessage(message)
       THEN /\ inbox' = SocketEmit(inbox, s,
                            ErrorEvent("Coin ID and message are required"))
            /\ UNCHANGED handlers
       ELSE IF TooLong(message)
       THEN /\ inbox' = SocketEmit(inbox, s,
                            ErrorEvent("Message too long (max 500 characters)"))
            /\ UNCHANGED handlers
       ELSE /\ handlers' = Append(handlers,
                                  Handler("send", s, coinId, message, "lookup"))
            /\ UNCHANGED inbox
    /\ UNCHANGED <<status, rooms, chat_messages, nextId, now, joined, completed,
                   faults>>
    /\ UNCHANGED notChat

\* getUserIdFromSub(user.sub) returns: the user's id, or null
LookupUser(i) ==
    /\ i \in 1..Len(handlers)
    /\ handlers[i].pc = "lookup"
    /\ \E userId \in {SubOf(handlers[i].sess), NoUser} :
          IF userId = NoUser
          THEN /\ Fault
               /\ inbox' = SocketEmit(inbox, handlers[i].sess,
                               ErrorEvent("User not found"))
               /\ handlers' = Remove(handlers, i)
          ELSE /\ handlers' = [handlers EXCEPT ![i] =
                      [@ EXCEPT !.pc = "insert", !.userId = userId]]
               /\ UNCHANGED <<inbox, faults>>
    /\ UNCHANGED <<status, rooms, chat_messages, nextId, now, joined, completed,
                   budget>>
    /\ UNCHANGED notChat

\* content: message.trim()
InsertedRow(h, at) == Row(nextId, h.coinId, h.userId, Trim(h.body), at, FALSE)

\* the database executes the insert, or fails it
InsertExec(i) ==
    /\ i \in 1..Len(handlers)
    /\ handlers[i].pc = "insert"
    /\ \/ \E dt \in {0, 1} :
            /\ now' = now + dt
            /\ chat_messages' = Append(chat_messages, InsertedRow(handlers[i], now'))
            /\ nextId' = nextId + 1
            /\ handlers' = [handlers EXCEPT ![i] =
                   [@ EXCEPT !.pc = "inserted", !.outcome = "ok",
                             !.data = <<InsertedRow(handlers[i], now')>>]]
            /\ UNCHANGED faults
       \/ /\ Fault
          /\ handlers' = [handlers EXCEPT ![i] =
                   [@ EXCEPT !.pc = "inserted", !.outcome = "error"]]
          /\ UNCHANGED <<chat_messages, nextId, now>>
    /\ UNCHANGED <<status, rooms, inbox, joined, completed, budget>>
    /\ UNCHANGED notChat

\* a broadcast through socket.to(coinId), which skips the sender
AudienceWithoutSender(s, coinId) == SocketTo(rooms, s, coinId)

\* a broadcast to the whole namespace instead of the room
AudienceWholeNamespace(s, coinId) == Sessions

\* chatNamespace.to(coinId)
MessageAudience(s, coinId) == NamespaceTo(rooms, coinId)

\* send_message after the insert returned
SendResume(i) ==
    /\ i \in 1..Len(handlers)
    /\ handlers[i].pc = "inserted"
    /\ LET h == handlers[i]
       IN  IF h.outcome = "error"
           THEN /\ inbox' = SocketEmit(inbox, h.sess,
                                ErrorEvent("Failed to send message"))
                /\ UNCHANGED completed
           ELSE /\ inbox' = Deliver(inbox, MessageAudience(h.sess, h.coinId),
                                    MessageEvent(h.data[1]))
                /\ completed' = Append(completed, h.data[1].id)
    /\ handlers' = Remove(handlers, i)
    /\ UNCHANGED <<status, rooms, chat_messages, nextId, now, joined, budget,
                   faults>>
    /\ UNCHANGED notChat

\* leave_room
LeaveRoom(s, coinId) ==
    /\ ClientEvent(s)
    /\ IF Truthy(coinId)
       THEN /\ rooms' = [rooms EXCEPT ![s] = @ \ {coinId}]
            /\ inbox' = Deliver(inbox, SocketTo(rooms', s, coinId), UserLeftEvent(s))
            /\ joined' = [joined EXCEPT ![s] = IF @ = coinId THEN NoRoom ELSE @]
       ELSE UNCHANGED <<rooms, inbox, joined>>
    /\ UNCHANGED <<status, chat_messages, nextId, now, handlers, completed,
                   faults>>
    /\ UNCHANGED notChat

\* the transport closes: socket.io empties socket.rooms, then the handler logs
Disconnect(s) ==
    /\ ClientEvent(s)
    /\ status' = [status EXCEPT ![s] = "closed"]
    /\ rooms' = [rooms EXCEPT ![s] = {}]
    /\ joined' = [joined EXCEPT ![s] = NoRoom]
    /\ UNCHANGED <<chat_messages, nextId, now, handlers, inbox, completed,
                   faults>>
    /\ UNCHANGED notChat

Next ==
    \/ \E s \in Sessions, c \in CoinIdInputs : JoinRoom(s, c)
    \/ \E i \in 1..MaxEvents : FetchExec(i)
    \/ \E i \in 1..MaxEvents : JoinResume(i)
    \/ \E s \in Sessions, in \in SendInputs : SendMessage(s, in[1], in[2])
    \/ \E i \in 1..MaxEvents : LookupUser(i)
    \/ \E i \in 1..MaxEvents : InsertExec(i)
    \/ \E i \in 1..MaxEvents : SendResume(i)
    \/ \E s \in Sessions, c \in CoinIdInputs : LeaveRoom(s, c)
    \/ \E s \in Sessions : Disconnect(s)

Spec == Init /\ [][Next]_vars

SpecSeeded == InitSeeded /\ [][Next]_vars

\* every session has just connected: none is in a room yet
InitJoin ==
    /\ Init
    /\ joined = [s \in Sessions |-> NoRoom]

SpecJoin == InitJoin /\ [][Next]_vars

\* ------------------------------------------------------- retention sweep
\* timer ticks and client events per run that includes the sweep
MaxSweepEvents == 2
\* WHERE rn <= 50 of cleanup_old_messages
KeepPerCoin == 50

\* a ranking that numbers the oldest row first
RankedOldestFirst(tie, r1, r2) == OrderedBefore(tie, r2, r1)

\* ROW_NUMBER() OVER (PARTITION BY coin_id ORDER BY created_at DESC): rows
\* with equal created_at are numbered in either order
RankedBefore(tie, r1, r2) == OrderedBefore(tie, r1, r2)

\* the rows of one partition, WHERE is_deleted = false, in rank order
Ranked(table, coin, tie) ==
    SortSeq(SelectSeq(table, LAMBDA r : r.coin_id = coin /\ r.is_deleted = FALSE),
            LAMBDA r1, r2 : RankedBefore(tie, r1, r2))

\* SELECT id FROM ranked WHERE rn <= 50
RankedIds(table, tie) ==
    UNION {LET ranked == Ranked(table, coin, tie)
           IN  {ranked[k].id : k \in 1..Min(Len(ranked), KeepPerCoin)} :
           coin \in {table[k].coin_id : k \in 1..Len(table)}}

\* DELETE FROM chat_messages WHERE id NOT IN (...)
CleanupOldMessages(table, tie) ==
    LET kept == RankedIds(table, tie)
    IN  SelectSeq(table, LAMBDA r : r.id \in kept)

\* a callback without the try / catch: a thrown error escapes it
CaughtUnlessThrown(outcome) == outcome # "throw"

\* try { ... } catch (error) { console.error(...) } around the whole callback
Caught(outcome) == TRUE

\* the interval timer fires and the callback calls supabase.rpc
Tick ==
    /\ sweeper = "armed"
    /\ budget > 0
    /\ budget' = budget - 1
    /\ sweeps' = Append(sweeps, "pending")
    /\ UNCHANGED <<status, rooms, chat_messages, nextId, now, handlers, inbox,
                   joined, completed, faults, sweeper, sweepLog>>
    /\ UNCHANGED notSweep

\* the database runs cleanup_old_messages in one statement, or the call fails
CleanupExec(i) ==
    /\ i \in 1..Len(sweeps)
    /\ sweeps[i] = "pending"
    /\ \/ \E tie \in {"asc", "desc"} :
            /\ chat_messages' = CleanupOldMessages(chat_messages, tie)
            /\ sweeps' = [sweeps EXCEPT ![i] = "ok"]
            /\ UNCHANGED faults
       \/ \E out \in {"error", "throw"} :
            /\ Fault
            /\ sweeps' = [sweeps EXCEPT ![i] = out]
            /\ UNCHANGED chat_messages
    /\ UNCHANGED <<status, rooms, nextId, now, handlers, inbox, joined,
                   completed, budget, sweeper, sweepLog>>
    /\ UNCHANGED notSweep

\* the callback resumes after its await and logs the outcome; an error
\* that escaped the callback would end the process and its timer
CleanupResume(i) ==
    /\ i \in 1..Len(sweeps)
    /\ sweeps[i] # "pending"
    /\ sweeps' = Remove(sweeps, i)
    /\ IF Caught(sweeps[i])
       THEN /\ sweepLog' = Append(sweepLog, sweeps[i])
            /\ UNCHANGED sweeper
       ELSE /\ sweeper' = "dead"
            /\ UNCHANGED sweepLog
    /\ UNCHANGED <<status, rooms, chat_messages, nextId, now, handlers, inbox,
                   joined, completed, budget, faults>>
    /\ UNCHANGED notSweep

\* a database in use, one session in room bitcoin, the sweep timer armed
InitSweep ==
    /\ InitServer
    /\ InitGateway
    /\ urls = {}
    /\ joined = [s \in Sessions |-> IF s = "s1" THEN "bitcoin" ELSE NoRoom]
    /\ chat_messages = SeedTable
    /\ nextId = SeedRows + 1
    /\ now = SeedTime(SeedRows)
    /\ budget = MaxSweepEvents

NextSweep ==
    \/ \E s \in Sessions, c \in CoinIdInputs : JoinRoom(s, c)
    \/ \E i \in 1..MaxSweepEvents : FetchExec(i)
    \/ \E i \in 1..MaxSweepEvents : JoinResume(i)
    \/ \E s \in Sessions, in \in SendInputs : SendMessage(s, in[1], in[2])
    \/ \E i \in 1..MaxSweepEvents : LookupUser(i)
    \/ \E i \in 1..MaxSweepEvents : InsertExec(i)
    \/ \E i \in 1..MaxSweepEvents : SendResume(i)
    \/ \E s \in Sessions, c \in CoinIdInputs : LeaveRoom(s, c)
    \/ \E s \in Sessions : Disconnect(s)
    \/ Tick
    \/ \E i \in 1..MaxSweepEvents : CleanupExec(i)
    \/ \E i \in 1..MaxSweepEvents : CleanupResume(i)

SpecSweep == InitSweep /\ [][NextSweep]_vars

\* ---------------------------------------------------- market-data gateway
\* requests and clock advances per run of the gateway
MaxCacheEvents == 3
\* ttlMinutes * 60 * 1000
MsPerMinute == 60000

\* a query parameter the request does not carry
Undefined == "undefined"

\* a request to the coins router: the route and its req.query / req.params
Request(endpoint) ==
    [endpoint |-> endpoint, ids |-> Undefined, vs_currency |-> Undefined,
     order |-> Undefined, per_page |-> Undefined, page |-> Undefined,
     sparkline |-> Undefined, price_change_percentage |-> Undefined,
     id |-> Undefined, days |-> Undefined, interval |-> Undefined,
     query |-> Undefined]

\* const { x = d } = req.query
Default(v, d) == IF v = Undefined THEN d ELSE v

\* the parameters a handler works with, the destructuring defaults applied
Params(q) ==
    CASE q.endpoint = "market" ->
            [q EXCEPT
                !.ids = Default(@, "bitcoin,ethereum,cardano,polkadot,chainlink"),
                !.vs_currency = Default(@, "usd"),
                !.order = Default(@, "market_cap_desc"),
                !.per_page = Default(@, "10"),
                !.page = Default(@, "1"),
                !.sparkline = Default(@, "true"),
                !.price_change_percentage = Default(@, "24h")]
      [] q.endpoint = "coin" ->
            [q EXCEPT
                !.vs_currency = Default(@, "usd"),
                !.days = Default(@, "7"),
                !.interval = Default(@, "daily")]
      [] OTHER -> q

\* query.toLowerCase(), on the queries of this model
ToLowerCase(query) == IF query = "BTC" THEN "btc" ELSE query

\* const cacheKey = ... of the four handlers
CacheKey(p) ==
    CASE p.endpoint = "market" ->
            "market_" \o p.ids \o "_" \o p.vs_currency \o "_" \o p.page \o "_"
                \o p.per_page
      [] p.endpoint = "coin" ->
            "coin_" \o p.id \o "_" \o p.vs_currency \o "_" \o p.days
      [] p.endpoint = "search" -> "search_" \o ToLowerCase(p.query)
      [] OTHER -> "trending_coins"

\* the ttlMinutes each handler passes to setCachedData
TtlMinutes(endpoint) ==
    CASE endpoint = "market" -> 1
      [] endpoint = "search" -> 10
      [] OTHER -> 5

\* the payload a handler builds from the upstream answer to the parameters p
\* at time t: what was asked for, lastUpdated and cacheExpiry (seconds)
Payload(p, t) ==
    [for |-> p, lastUpdated |-> t, cacheExpiry |-> TtlMinutes(p.endpoint) * 60]
\* null
NoData == [for |-> Request("null"), lastUpdated |-> 0, cacheExpiry |-> 0]

\* cache.get(key)
Lookup(c, key) == {e \in c : e.key = key}

\* an expiry test that still serves an entry of age ttl
FreshAtTtl(e, t) == t - e.timestamp <= e.ttl

\* Date.now() - cached.timestamp < cached.ttl
Fresh(e, t) == t - e.timestamp < e.ttl

\* getCachedData: the value returned
GetCachedData(c, key, t) ==
    IF \E e \in Lookup(c, key) : Fresh(e, t)
    THEN (CHOOSE e \in Lookup(c, key) : TRUE).data
    ELSE NoData

\* getCachedData: the cache it leaves (cache.delete(key) unless it returned)
AfterGet(c, key, t) ==
    IF \E e \in Lookup(c, key) : Fresh(e, t) THEN c ELSE c \ Lookup(c, key)

\* a setCachedData that stores the ttl as given, in minutes
SetCachedDataMinutes(c, key, data, ttlMinutes, t) ==
    (c \ Lookup(c, key))
        \cup {[key |-> key, data |-> data, timestamp |-> t, ttl |-> ttlMinutes]}

\* a setCachedData that keeps the entry a key already has
SetCachedDataIfAbsent(c, key, data, ttlMinutes, t) ==
    IF Lookup(c, key) # {} THEN c
    ELSE c \cup {[key |-> key, data |-> data, timestamp |-> t,
                  ttl |-> ttlMinutes * MsPerMinute]}

\* setCachedData
SetCachedData(c, key, data, ttlMinutes, t) ==
    (c \ Lookup(c, key))
        \cup {[key |-> key, data |-> data, timestamp |-> t,
                ttl |-> ttlMinutes * MsPerMinute]}

\* the requests clients issue: each route with its defaults, and with each
\* parameter in turn set to another value
MarketInputs ==
    LET q == Request("market")
    IN  {q, [q EXCEPT !.ids = "bitcoin,ethereum"], [q EXCEPT !.vs_currency = "eur"],
         [q EXCEPT !.order = "volume_desc"], [q EXCEPT !.per_page = "20"],
         [q EXCEPT !.page = "2"], [q EXCEPT !.sparkline = "false"],
         [q EXCEPT !.price_change_percentage = "7d"]}
CoinInputs ==
    LET q == [Request("coin") EXCEPT !.id = "bitcoin"]
    IN  {q, [q EXCEPT !.id = "ethereum"], [q EXCEPT !.vs_currency = "eur"],
         [q EXCEPT !.days = "30"], [q EXCEPT !.interval = "hourly"]}
SearchInputs ==
    LET q == Request("search")
    IN  {q, [q EXCEPT !.query = "btc"], [q EXCEPT !.query = "BTC"]}
GatewayInputs ==
    MarketInputs \cup CoinInputs \cup SearchInputs \cup {Request("trending")}

\* the upstream calls a handler issues for the parameters p
UpstreamPaths(p) ==
    CASE p.endpoint = "market" -> <<"/coins/markets">>
      [] p.endpoint = "coin" -> <<"/coins/{id}", "/coins/{id}/market_chart">>
      [] p.endpoint = "search" -> <<"/search">>
      [] OTHER -> <<"/search/trending">>
UpstreamCallsFor(p) ==
    [k \in 1..Len(UpstreamPaths(p)) |-> [path |-> UpstreamPaths(p)[k], params |-> p]]

Response(q, code, body) == [req |-> q, status |-> code, body |-> body]

\* a handler of the coins router, up to its first await
GatewayRequest(q) ==
    /\ q \in urls
    /\ budget > 0
    /\ budget' = budget - 1
    /\ LET p == Params(q)
           cached == GetCachedData(cache, CacheKey(p), clock)
       IN  IF q.endpoint = "search" /\ q.query = Undefined
           THEN /\ responses' = Append(responses, Response(q, 400, NoData))
                /\ UNCHANGED <<cache, requests, upstreamCalls>>
           ELSE /\ cache' = AfterGet(cache, CacheKey(p), clock)
                /\ IF cached # NoData
                   THEN /\ responses' = Append(responses, Response(q, 200, cached))
                        /\ UNCHANGED <<requests, upstreamCalls>>
                   ELSE /\ requests' = Append(requests,
                               [req |-> q, pc |-> "upstream", data |-> NoData])
                        /\ upstreamCalls' = upstreamCalls \o UpstreamCallsFor(p)
                        /\ UNCHANGED responses
    /\ UNCHANGED <<clock, urls, faults>>
    /\ UNCHANGED notCache

\* the upstream answers, or fails: the handler builds the result, caches it
\* and (all routes but /:id/market) responds; a failure is a 500
UpstreamReturn(i) ==
    /\ i \in 1..Len(requests)
    /\ requests[i].pc = "upstream"
    /\ LET q == requests[i].req
           p == Params(q)
           result == Payload(p, clock)
       IN  \/ /\ cache' = SetCachedData(cache, CacheKey(p), result,
                                          TtlMinutes(p.endpoint), clock)
              /\ IF p.endpoint = "coin"
                 THEN /\ requests' = [requests EXCEPT ![i] =
                             [@ EXCEPT !.pc = "upsert", !.data = result]]
                      /\ UNCHANGED responses
                 ELSE /\ requests' = Remove(requests, i)
                      /\ responses' = Append(responses, Response(q, 200, result))
              /\ UNCHANGED faults
           \/ /\ Fault
              /\ requests' = Remove(requests, i)
              /\ responses' = Append(responses, Response(q, 500, NoData))
              /\ UNCHANGED cache
    /\ UNCHANGED <<clock, urls, upstreamCalls, budget>>
    /\ UNCHANGED notCache

\* /:id/market after await updateCoinInDatabase(...), which swallows its
\* own failures
UpsertReturn(i) ==
    /\ i \in 1..Len(requests)
    /\ requests[i].pc = "upsert"
    /\ requests' = Remove(requests, i)
    /\ responses' = Append(responses,
                           Response(requests[i].req, 200, requests[i].data))
    /\ UNCHANGED <<cache, clock, urls, upstreamCalls, budget, faults>>
    /\ UNCHANGED notCache

\* time passes: a millisecond, or up to the last millisecond before an
\* entry's expiry, or up to its expiry
Advances ==
    {1} \cup {e.timestamp + e.ttl - 1 - clock : e \in cache}
        \cup {e.timestamp + e.ttl - clock : e \in cache}
Advance(d) ==
    /\ d \in Advances
    /\ d > 0
    /\ budget > 0
    /\ budget' = budget - 1
    /\ clock' = clock + d
    /\ UNCHANGED <<cache, urls, requests, responses, upstreamCalls, faults>>
    /\ UNCHANGED notCache

\* the gateway after start-up; the clients of a run use two request URLs
InitCache ==
    /\ InitServer
    /\ joined = [s \in Sessions |-> NoRoom]
    /\ chat_messages = <<>>
    /\ nextId = 1
    /\ now = 0
    /\ InitGateway
    /\ urls \in {u \in SUBSET GatewayInputs : Cardinality(u) = 2}
    /\ budget = MaxCacheEvents

NextCache ==
    \/ \E q \in GatewayInputs : GatewayRequest(q)
    \/ \E i \in 1..MaxCacheEvents : UpstreamReturn(i)
    \/ \E i \in 1..MaxCacheEvents : UpsertReturn(i)
    \/ \E d \in Advances : Advance(d)

SpecCache == InitCache /\ [][NextCache]_vars

\* ------------------------------------------------------- chat REST routes
\* requests to the chat router per run
MaxRestEvents == 3
\* Joi.string().min(1).max(1000)
MaxRestLength == 1000
MinRestLength == 1

\* the coins table as the migration seeds it
CoinsTable == {"bitcoin", "ethereum", "cardano", "polkadot", "chainlink"}

\* a request to the chat router: req.user?.sub (NoUser when req.user is not
\* set), req.params.messageId, req.body.coinId and req.body.content
RestRequest(method, caller, messageId, coinId, content) ==
    [method |-> method, caller |-> caller, messageId |-> messageId,
     coinId |-> coinId, content |-> content]

\* the messages the table holds when a run starts: one by each user
RestTable ==
    <<Row(1, "bitcoin", "u1", Body(0, 5, 0), 1, FALSE),
      Row(2, "bitcoin", "u2", Body(0, 5, 0), 1, FALSE)>>

\* callers: the two users, an authenticated subject without a users row, and
\* a request on which no req.user was set
Callers == {"u1", "u2", "u3", NoUser}
DeleteInputs ==
    {RestRequest("DELETE", c, id, NoCoin, Body(0, 0, 0)) :
        c \in Callers, id \in {1, 2, 9}}
\* a valid post at the length cap, and the same with one part changed
PostInputs ==
    LET q == RestRequest("POST", "u1", 0, "bitcoin", Body(0, MaxRestLength, 0))
    IN  {q, [q EXCEPT !.caller = NoUser], [q EXCEPT !.caller = "u3"],
         [q EXCEPT !.coinId = "dogecoin"], [q EXCEPT !.coinId = NoCoin],
         [q EXCEPT !.content = Body(0, MaxRestLength + 1, 0)],
         [q EXCEPT !.content = Body(0, 0, 0)], [q EXCEPT !.content = BlankBody]}
RestInputs == DeleteInputs \cup PostInputs

\* a schema that caps the content one character too high
ValidMessageOffByOne(q) ==
    /\ q.coinId # NoCoin
    /\ BodyLength(q.content) >= MinRestLength
    /\ BodyLength(q.content) <= MaxRestLength + 1

\* messageSchema.validate(req.body) reports no error
ValidMessage(q) ==
    /\ q.coinId # NoCoin
    /\ BodyLength(q.content) >= MinRestLength
    /\ BodyLength(q.content) <= MaxRestLength

\* getUserIdFromSub on the users table
GetUserIdFromSub(table, sub) ==
    IF \E k \in 1..Len(table) : table[k].auth0_sub = sub
    THEN table[CHOOSE k \in 1..Len(table) : table[k].auth0_sub = sub].id
    ELSE NoUser

\* an ownership test that lets any registered user through
OwnedByAnyone(row, userId) == TRUE

\* !(message.user_id !== userId)
OwnedBy(row, userId) == row.user_id = userId

Reply(q, code) == Response(q, code, NoData)

\* POST /messages and DELETE /messages/:messageId up to the first await
RestCall(q) ==
    /\ q \in urls
    /\ budget > 0
    /\ budget' = budget - 1
    /\ IF q.caller = NoUser
       THEN /\ responses' = Append(responses, Reply(q, 401))
            /\ UNCHANGED requests
       ELSE IF q.method = "POST" /\ ~ValidMessage(q)
       THEN /\ responses' = Append(responses, Reply(q, 400))
            /\ UNCHANGED requests
       ELSE /\ requests' = Append(requests,
                                  [req |-> q, pc |-> "lookup", userId |-> NoUser])
            /\ UNCHANGED responses
    /\ UNCHANGED <<chat_messages, nextId, now, faults, cache, clock, urls,
                   upstreamCalls>>
    /\ UNCHANGED <<status, rooms, handlers, inbox, joined, completed, sweepVars, clientVars,
                   authVars>>

\* getUserIdFromSub returns: the handler answers 404 on null, or goes on to
\* its next database call
RestLookupUser(i) ==
    /\ i \in 1..Len(requests)
    /\ requests[i].pc = "lookup"
    /\ LET q == requests[i].req
           found == GetUserIdFromSub(users, q.caller)
       IN  \/ /\ found # NoUser
              /\ requests' = [requests EXCEPT ![i] =
                     [@ EXCEPT !.userId = found,
                               !.pc = IF q.method = "DELETE" THEN "select"
                                      ELSE "coin"]]
              /\ UNCHANGED <<responses, faults>>
           \/ /\ found = NoUser
              /\ requests' = Remove(requests, i)
              /\ responses' = Append(responses, Reply(q, 404))
              /\ UNCHANGED faults
           \/ /\ Fault
              /\ requests' = Remove(requests, i)
              /\ responses' = Append(responses, Reply(q, 404))
    /\ UNCHANGED <<chat_messages, nextId, now, budget, cache, clock, urls,
                   upstreamCalls>>
    /\ UNCHANGED <<status, rooms, handlers, inbox, joined, completed, sweepVars, clientVars,
                   authVars>>

\* the rows .eq('id', messageId) selects
RowsWithId(table, id) == {k \in 1..Len(table) : table[k].id = id}

\* DELETE: the select of the message returns; 404 when no row (PGRST116),
\* 500 on another error, 403 when the row is not the caller's, else the
\* handler issues the delete
DeleteSelect(i) ==
    /\ i \in 1..Len(requests)
    /\ requests[i].pc = "select"
    /\ LET q == requests[i].req
           hit == RowsWithId(chat_messages, q.messageId)
       IN  \/ /\ hit = {}
              /\ requests' = Remove(requests, i)
              /\ responses' = Append(responses, Reply(q, 404))
              /\ UNCHANGED faults
           \/ /\ hit # {}
              /\ IF OwnedBy(chat_messages[CHOOSE k \in hit : TRUE], requests[i].userId)
                 THEN /\ requests' = [requests EXCEPT ![i] = [@ EXCEPT !.pc = "delete"]]
                      /\ UNCHANGED responses
                 ELSE /\ requests' = Remove(requests, i)
                      /\ responses' = Append(responses, Reply(q, 403))
              /\ UNCHANGED faults
           \/ /\ Fault
              /\ requests' = Remove(requests, i)
              /\ responses' = Append(responses, Reply(q, 500))
    /\ UNCHANGED <<chat_messages, nextId, now, budget, cache, clock, urls,
                   upstreamCalls>>
    /\ UNCHANGED <<status, rooms, handlers, inbox, joined, completed, sweepVars, clientVars,
                   authVars>>

\* DELETE: .delete().eq('id', messageId) returns
DeleteExec(i) ==
    /\ i \in 1..Len(requests)
    /\ requests[i].pc = "delete"
    /\ LET q == requests[i].req
       IN  \/ /\ chat_messages' =
                     SelectSeq(chat_messages, LAMBDA r : r.id # q.messageId)
              /\ responses' = Append(responses, Reply(q, 200))
              /\ UNCHANGED faults
           \/ /\ Fault
              /\ responses' = Append(responses, Reply(q, 500))
              /\ UNCHANGED chat_messages
    /\ requests' = Remove(requests, i)
    /\ UNCHANGED <<nextId, now, budget, cache, clock, urls, upstreamCalls>>
    /\ UNCHANGED <<status, rooms, handlers, inbox, joined, completed, sweepVars, clientVars,
                   authVars>>

\* POST: the coin check returns; 404 when the coin is unknown, 500 on
\* another error, else the handler issues the insert
CoinCheck(i) ==
    /\ i \in 1..Len(requests)
    /\ requests[i].pc = "coin"
    /\ LET q == requests[i].req
       IN  \/ /\ q.coinId \in CoinsTable
              /\ requests' = [requests EXCEPT ![i] = [@ EXCEPT !.pc = "insert"]]
              /\ UNCHANGED <<responses, faults>>
           \/ /\ q.coinId \notin CoinsTable
              /\ requests' = Remove(requests, i)
              /\ responses' = Append(responses, Reply(q, 404))
              /\ UNCHANGED faults
           \/ /\ Fault
              /\ requests' = Remove(requests, i)
              /\ responses' = Append(responses, Reply(q, 500))
    /\ UNCHANGED <<chat_messages, nextId, now, budget, cache, clock, urls,
                   upstreamCalls>>
    /\ UNCHANGED <<status, rooms, handlers, inbox, joined, completed, sweepVars, clientVars,
                   authVars>>

\* POST: the insert returns; content: content.trim()
PostInsert(i) ==
    /\ i \in 1..Len(requests)
    /\ requests[i].pc = "insert"
    /\ LET q == requests[i].req
       IN  \/ \E dt \in {0, 1} :
                /\ now' = now + dt
                /\ chat_messages' =
                      Append(chat_messages,
                             Row(nextId, q.coinId, requests[i].userId,
                                 Trim(q.content), now', FALSE))
                /\ nextId' = nextId + 1
                /\ responses' = Append(responses, Reply(q, 201))
                /\ UNCHANGED faults
           \/ /\ Fault
              /\ responses' = Append(responses, Reply(q, 500))
              /\ UNCHANGED <<chat_messages, nextId, now>>
    /\ requests' = Remove(requests, i)
    /\ UNCHANGED <<budget, cache, clock, urls, upstreamCalls>>
    /\ UNCHANGED <<status, rooms, handlers, inbox, joined, completed, sweepVars, clientVars,
                   authVars>>

\* the chat router over a table with one message of each user; the clients
\* of a run use two requests
InitRest ==
    /\ InitServer
    /\ joined = [s \in Sessions |-> NoRoom]
    /\ chat_messages = RestTable
    /\ nextId = Len(RestTable) + 1
    /\ now = 1
    /\ InitGateway
    /\ urls \in {u \in SUBSET RestInputs : Cardinality(u) = 2}
    /\ budget = MaxRestEvents

NextRest ==
    \/ \E q \in RestInputs : RestCall(q)
    \/ \E i \in 1..MaxRestEvents : RestLookupUser(i)
    \/ \E i \in 1..MaxRestEvents : DeleteSelect(i)
    \/ \E i \in 1..MaxRestEvents : DeleteExec(i)
    \/ \E i \in 1..MaxRestEvents : CoinCheck(i)
    \/ \E i \in 1..MaxRestEvents : PostInsert(i)

SpecRest == InitRest /\ [][NextRest]_vars

\* ------------------------------------------------------ chat REST history
\* GET /messages requests per run
MaxPageEvents == 2
\* limit: Joi.number().integer().min(1).max(100).default(50)
PageLimitMin == 1
PageLimitMax == 100
PageLimitDefault == 50

\* a numeric or date query parameter: {} when the request does not carry it
Absent == {}
\* the value Joi hands on: the parameter converted, or its default
ValueOr(v, d) == IF v = Absent THEN d ELSE CHOOSE n \in v : TRUE

\* req.query of GET /messages
PageRequest(coinId, limit, offset, before) ==
    [method |-> "GET", coinId |-> coinId, limit |-> limit, offset |-> offset,
     before |-> before]

\* the messages the table holds: two rooms, equal creation times in one,
\* a soft-deleted row
PageTable ==
    <<Row(1, "bitcoin", "u1", Body(0, 5, 0), 1, FALSE),
      Row(2, "ethereum", "u2", Body(0, 5, 0), 1, FALSE),
      Row(3, "bitcoin", "u2", Body(0, 5, 0), 2, FALSE),
      Row(4, "bitcoin", "u1", Body(0, 5, 0), 2, TRUE),
      Row(5, "ethereum", "u1", Body(0, 5, 0), 3, FALSE),
      Row(6, "bitcoin", "u1", Body(0, 5, 0), 3, FALSE),
      Row(7, "bitcoin", "u2", Body(0, 5, 0), 4, FALSE)>>

PageInputs ==
    {PageRequest(c, l, o, b) :
        c \in {"bitcoin", "ethereum", NoCoin},
        l \in {Absent, {0}, {2}, {3}, {PageLimitMax + 1}},
        o \in {Absent, {1}, {3}, {-1}},
        b \in {Absent, {3}}}

\* messagesQuerySchema.validate(req.query) reports no error
ValidPage(q) ==
    /\ q.coinId # NoCoin
    /\ \A l \in q.limit : l >= PageLimitMin /\ l <= PageLimitMax
    /\ \A o \in q.offset : o >= 0

\* .eq('coin_id', coinId) and, when given, .lt('created_at', before)
PageFilter(q, r) ==
    /\ r.coin_id = q.coinId
    /\ \A b \in q.before : r.created_at < b

\* a range that takes one row too many
PageRangeInclusive(sorted, offset, limit) ==
    SubSeq(sorted, offset + 1, Min(Len(sorted), offset + limit + 1))

\* .range(offset, offset + limit - 1)
PageRange(sorted, offset, limit) ==
    SubSeq(sorted, offset + 1, Min(Len(sorted), offset + limit))

\* the query of GET /messages, newest first
PageQuery(table, q, tie) ==
    PageRange(SortSeq(SelectSeq(table, LAMBDA r : PageFilter(q, r)),
                      LAMBDA r1, r2 : OrderedBefore(tie, r1, r2)),
              ValueOr(q.offset, 0), ValueOr(q.limit, PageLimitDefault))

\* the response body: messages oldest first, hasMore, nextOffset
Page(q, messages) ==
    [messages |-> Reverse([i \in 1..Len(messages) |-> FormatMessage(messages[i])]),
     hasMore |-> Len(messages) = ValueOr(q.limit, PageLimitDefault),
     nextOffset |-> ValueOr(q.offset, 0) + ValueOr(q.limit, PageLimitDefault)]
\* the body of an error response
NoPage == [messages |-> <<>>, hasMore |-> FALSE, nextOffset |-> 0]

\* GET /messages up to its await: 400 on a validation error
PageCall(q) ==
    /\ q \in urls
    /\ budget > 0
    /\ budget' = budget - 1
    /\ IF ValidPage(q)
       THEN /\ requests' = Append(requests, [req |-> q, pc |-> "query"])
            /\ UNCHANGED responses
       ELSE /\ responses' = Append(responses, Response(q, 400, NoPage))
            /\ UNCHANGED requests
    /\ UNCHANGED <<chat_messages, nextId, now, faults, cache, clock, urls,
                   upstreamCalls>>
    /\ UNCHANGED <<status, rooms, handlers, inbox, joined, completed, sweepVars, clientVars,
                   authVars>>

\* GET /messages: the query returns; 500 on an error
PageReturn(i) ==
    /\ i \in 1..Len(requests)
    /\ requests[i].pc = "query"
    /\ LET q == requests[i].req
       IN  \/ /\ \E tie \in {"asc", "desc"} :
                    responses' = Append(responses,
                        Response(q, 200, Page(q, PageQuery(chat_messages, q, tie))))
              /\ UNCHANGED faults
           \/ /\ Fault
              /\ responses' = Append(responses, Response(q, 500, NoPage))
    /\ requests' = Remove(requests, i)
    /\ UNCHANGED <<chat_messages, nextId, now, budget, cache, clock, urls,
                   upstreamCalls>>
    /\ UNCHANGED <<status, rooms, handlers, inbox, joined, completed, sweepVars, clientVars,
                   authVars>>

\* the chat router over the table; the clients of a run use two requests
InitPage ==
    /\ InitServer
    /\ joined = [s \in Sessions |-> NoRoom]
    /\ chat_messages = PageTable
    /\ nextId = Len(PageTable) + 1
    /\ now = 4
    /\ InitGateway
    /\ urls \in {{q1, q2} : q1 \in PageInputs, q2 \in PageInputs}
    /\ budget = MaxPageEvents

NextPage ==
    \/ \E q \in PageInputs : PageCall(q)
    \/ \E i \in 1..MaxPageEvents : PageReturn(i)

SpecPage == InitPage /\ [][NextPage]_vars

\* ------------------------------------------------------ identity resolver
\* connection attempts, authenticated REST requests and chat events per run
MaxAuthEvents == 3

\* socket.handshake.auth.token / the Authorization header: missing, rejected
\* by jwt.verify, or verified
NoToken == "none"
Tokens == {NoToken, "bad", "good"}
\* the subjects REST callers authenticate as
Subjects == {SubOf(s) : s \in Sessions}

\* an authentication in flight: of a chat socket or of a REST request
Auth(kind, who, sub, token, pc) ==
    [kind |-> kind, who |-> who, sub |-> sub, token |-> token, pc |-> pc]
Ended(a, outcome) ==
    [kind |-> a.kind, who |-> a.who, sub |-> a.sub, token |-> a.token,
     outcome |-> outcome]

\* the users table has a row for the subject
Known(table, sub) == \E k \in 1..Len(table) : table[k].auth0_sub = sub

\* the authentication ends: next() lets a socket connect and a REST request
\* through; next(err) refuses the socket; a REST request gets 401 or 500; an
\* error thrown in the socket's verify callback is caught by nobody and next
\* is never called
Finish(i, outcome) ==
    /\ auths' = Remove(auths, i)
    /\ authLog' = Append(authLog, Ended(auths[i], outcome))
    /\ IF auths[i].kind = "socket"
       THEN /\ status' = [status EXCEPT ![auths[i].who] =
                   CASE outcome = "next" -> "connected"
                     [] outcome = "throw" -> "hung"
                     [] OTHER -> "refused"]
            /\ rooms' = [rooms EXCEPT ![auths[i].who] =
                   IF outcome = "next" THEN {auths[i].who} ELSE @]
       ELSE UNCHANGED <<status, rooms>>

\* a client opens a chat-namespace connection: socketAuthMiddleware up to
\* jwt.verify
Connect(s, token) ==
    /\ status[s] = "idle"
    /\ budget > 0
    /\ budget' = budget - 1
    /\ IF token = NoToken
       THEN /\ status' = [status EXCEPT ![s] = "refused"]
            /\ authLog' = Append(authLog,
                  Ended(Auth("socket", s, SubOf(s), token, "verify"), "refused"))
            /\ UNCHANGED auths
       ELSE /\ status' = [status EXCEPT ![s] = "connecting"]
            /\ auths' = Append(auths, Auth("socket", s, SubOf(s), token, "verify"))
            /\ UNCHANGED authLog
    /\ UNCHANGED <<rooms, chat_messages, nextId, now, handlers, inbox, joined,
                   completed, faults, users, sweepVars, clientVars, cacheVars>>

\* a REST request arrives at authMiddleware
AuthRequest(sub, token) ==
    /\ budget > 0
    /\ budget' = budget - 1
    /\ IF token = NoToken
       THEN /\ authLog' = Append(authLog,
                  Ended(Auth("rest", sub, sub, token, "verify"), "401"))
            /\ UNCHANGED auths
       ELSE /\ auths' = Append(auths, Auth("rest", sub, sub, token, "verify"))
            /\ UNCHANGED authLog
    /\ UNCHANGED <<chatVars, faults, users, sweepVars, clientVars, cacheVars>>

\* a verification that reports no error for any token
VerifiedAny(token) == TRUE

\* jwt.verify hands the callback a decoded token and no error
Verified(token) == token = "good"

\* the jwt.verify callback runs: an error ends the authentication, a decoded
\* token sets the user and ensureUserExists issues its select
Verify(i) ==
    /\ i \in 1..Len(auths)
    /\ auths[i].pc = "verify"
    /\ \/ /\ Verified(auths[i].token)
          /\ auths' = [auths EXCEPT ![i] = [@ EXCEPT !.pc = "select"]]
          /\ UNCHANGED <<status, rooms, authLog, faults>>
       \/ /\ ~Verified(auths[i].token)
          /\ Finish(i, IF auths[i].kind = "socket" THEN "refused" ELSE "401")
          /\ UNCHANGED faults
       \/ /\ Fault
          /\ Finish(i, IF auths[i].kind = "socket" THEN "refused" ELSE "401")
    /\ UNCHANGED <<chat_messages, nextId, now, handlers, inbox, joined,
                   completed, budget, users, sweepVars, clientVars, cacheVars>>

\* ensureUserExists: the select returns; a row ends the authentication
\* well, no row (PGRST116) makes it issue the insert, another error is thrown
EnsureSelect(i) ==
    /\ i \in 1..Len(auths)
    /\ auths[i].pc = "select"
    /\ \/ /\ Known(users, auths[i].sub)
          /\ Finish(i, "next")
          /\ UNCHANGED faults
       \/ /\ ~Known(users, auths[i].sub)
          /\ auths' = [auths EXCEPT ![i] = [@ EXCEPT !.pc = "insert"]]
          /\ UNCHANGED <<status, rooms, authLog, faults>>
       \/ /\ Fault
          /\ Finish(i, IF auths[i].kind = "socket" THEN "throw" ELSE "500")
    /\ UNCHANGED <<chat_messages, nextId, now, handlers, inbox, joined,
                   completed, budget, users, sweepVars, clientVars, cacheVars>>

\* auth0_sub VARCHAR(255) UNIQUE NOT NULL: the insert is accepted
Accepted(table, sub) == ~Known(table, sub)

\* ensureUserExists: the insert returns; insertError is thrown
EnsureInsert(i) ==
    /\ i \in 1..Len(auths)
    /\ auths[i].pc = "insert"
    /\ \/ /\ Accepted(users, auths[i].sub)
          /\ users' = Append(users, UserRow(auths[i].sub))
          /\ Finish(i, "next")
          /\ UNCHANGED faults
       \/ /\ ~Accepted(users, auths[i].sub)
          /\ Finish(i, IF auths[i].kind = "socket" THEN "throw" ELSE "500")
          /\ UNCHANGED <<users, faults>>
       \/ /\ Fault
          /\ Finish(i, IF auths[i].kind = "socket" THEN "throw" ELSE "500")
          /\ UNCHANGED users
    /\ UNCHANGED <<chat_messages, nextId, now, handlers, inbox, joined,
                   completed, budget, sweepVars, clientVars, cacheVars>>

\* the server before any client has been seen: no connection, no user
InitAuth ==
    /\ status = [s \in Sessions |-> "idle"]
    /\ rooms = [s \in Sessions |-> {}]
    /\ joined = [s \in Sessions |-> NoRoom]
    /\ handlers = <<>>
    /\ inbox = [s \in Sessions |-> <<>>]
    /\ completed = <<>>
    /\ chat_messages = <<>>
    /\ nextId = 1
    /\ now = 0
    /\ faults = MaxFaults
    /\ sweeps = <<>>
    /\ sweeper = "armed"
    /\ sweepLog = <<>>
    /\ InitGateway
    /\ urls = {}
    /\ users = <<>>
    /\ auths = <<>>
    /\ authLog = <<>>
    /\ InitBrowser
    /\ budget = MaxAuthEvents

NextAuth ==
    \/ \E s \in Sessions, token \in Tokens : Connect(s, token)
    \/ \E sub \in Subjects, token \in Tokens : AuthRequest(sub, token)
    \/ \E i \in 1..MaxAuthEvents : Verify(i)
    \/ \E i \in 1..MaxAuthEvents : EnsureSelect(i)
    \/ \E i \in 1..MaxAuthEvents : EnsureInsert(i)
    \/ \E s \in Sessions, c \in CoinIdInputs : JoinRoom(s, c)
    \/ \E i \in 1..MaxAuthEvents : FetchExec(i)
    \/ \E i \in 1..MaxAuthEvents : JoinResume(i)
    \/ \E s \in Sessions, in \in SendInputs : SendMessage(s, in[1], in[2])
    \/ \E i \in 1..MaxAuthEvents : LookupUser(i)
    \/ \E i \in 1..MaxAuthEvents : InsertExec(i)
    \/ \E i \in 1..MaxAuthEvents : SendResume(i)
    \/ \E s \in Sessions, c \in CoinIdInputs : LeaveRoom(s, c)
    \/ \E s \in Sessions : Disconnect(s)

SpecAuth == InitAuth /\ [][NextAuth]_vars

\* ---------------------------------------------------------- browser client
\* mounts and unmounts of useSocket components per run
MaxClientEvents == 3

\* io(url, options): a new Socket on every call, which starts connecting
Io(nsp) == [nsp |-> nsp, state |-> "connecting"]

\* SocketManager.connect(token): the manager and the sockets afterwards
ManagerConnect(m, os, token) ==
    <<[m EXCEPT !.token = token, !.socket = Len(os) + 1,
                !.chatSocket = Len(os) + 2],
      os \o <<Io("/"), Io("/chat")>>>>

\* SocketManager.disconnect(): the manager and the sockets afterwards
ManagerDisconnect(m, os) ==
    <<[m EXCEPT !.socket = NoSocket, !.chatSocket = NoSocket,
                !.eventListeners = {}],
      [k \in 1..Len(os) |->
          IF k \in {m.socket, m.chatSocket} THEN [os[k] EXCEPT !.state = "closed"]
          ELSE os[k]]>>

\* a component that calls useSocket mounts: the effect runs connectSocket up
\* to await getAccessTokenSilently(), or not at all when not authenticated
Mount(c) ==
    /\ ~mounts[c].mounted
    /\ budget > 0
    /\ budget' = budget - 1
    /\ \E isAuthenticated \in BOOLEAN :
          mounts' = [mounts EXCEPT ![c] =
              [mounted |-> TRUE,
               fetching |-> IF isAuthenticated THEN @.fetching + 1 ELSE @.fetching]]
    /\ UNCHANGED <<manager, opened, faults>>
    /\ UNCHANGED <<chatVars, sweepVars, cacheVars, authVars>>

\* getAccessTokenSilently() returns: connect(token), or the error is logged
TokenReturn(c) ==
    /\ mounts[c].fetching > 0
    /\ mounts' = [mounts EXCEPT ![c].fetching = @ - 1]
    /\ \/ /\ manager' = ManagerConnect(manager, opened, "good")[1]
          /\ opened' = ManagerConnect(manager, opened, "good")[2]
          /\ UNCHANGED faults
       \/ /\ Fault
          /\ UNCHANGED <<manager, opened>>
    /\ UNCHANGED budget
    /\ UNCHANGED <<chatVars, sweepVars, cacheVars, authVars>>

\* the component unmounts: the effect's cleanup calls disconnect()
Unmount(c) ==
    /\ mounts[c].mounted
    /\ budget > 0
    /\ budget' = budget - 1
    /\ mounts' = [mounts EXCEPT ![c].mounted = FALSE]
    /\ manager' = ManagerDisconnect(manager, opened)[1]
    /\ opened' = ManagerDisconnect(manager, opened)[2]
    /\ UNCHANGED faults
    /\ UNCHANGED <<chatVars, sweepVars, cacheVars, authVars>>

\* the server admits a connecting socket: socket.connected becomes true
Admit(k) ==
    /\ k \in 1..Len(opened)
    /\ opened[k].state = "connecting"
    /\ opened' = [opened EXCEPT ![k].state = "connected"]
    /\ UNCHANGED <<manager, mounts, budget, faults>>
    /\ UNCHANGED <<chatVars, sweepVars, cacheVars, authVars>>

\* the page after load, the user logged in or not
InitClient ==
    /\ InitServer
    /\ InitGateway
    /\ urls = {}
    /\ joined = [s \in Sessions |-> NoRoom]
    /\ chat_messages = <<>>
    /\ nextId = 1
    /\ now = 0
    /\ budget = MaxClientEvents

NextClient ==
    \/ \E c \in Components : Mount(c)
    \/ \E c \in Components : TokenReturn(c)
    \/ \E c \in Components : Unmount(c)
    \/ \E k \in 1..(2 * MaxClientEvents) : Admit(k)

SpecClient == InitClient /\ [][NextClient]_vars

\* ------------------------------------------------------------------ claims
\* the membership set of a room
Members(room) == {t \in Sessions : room \in rooms[t]}
\* the events delivered to s by the current step
NewEvents(s) == SubSeq(inbox'[s], Len(inbox[s]) + 1, Len(inbox'[s]))
\* the step delivers exactly e to s, after everything s already received
Receives(s, e) == inbox'[s] = Append(inbox[s], e)
IsMessage(e, id) == e.type = "message" /\ e.message.id = id
CountMessage(s, id) ==
    Cardinality({k \in 1..Len(inbox[s]) : IsMessage(inbox[s][k], id)})
HasEvent(s, type, coinId) ==
    \E k \in 1..Len(inbox[s]) :
        inbox[s][k].type = type /\ inbox[s][k].coinId = coinId
HasError(s, text) ==
    \E k \in 1..Len(inbox[s]) :
        inbox[s][k].type = "error" /\ inbox[s][k].text = text
NoMessageEvents(s) == \A k \in 1..Len(inbox[s]) : inbox[s][k].type # "message"

\* C1: no session is in two coin rooms at once, and a room's members are
\* exactly the sessions whose latest valid join_room named that room and
\* that have neither left it nor disconnected since.
C1_Membership ==
    /\ \A s \in Sessions : Cardinality(rooms[s] \cap Coins) <= 1
    /\ \A r \in Coins : Members(r) = {s \in Sessions : joined[s] = r}

\* a session that received the bitcoin snapshot now sits in ethereum only
C1_Witness ==
    \E s \in Sessions :
        /\ HasEvent(s, "room_joined", "bitcoin")
        /\ rooms[s] \cap Coins = {"ethereum"}

\* C2: when a send_message whose insert succeeded resumes, every member of
\* the target room, the sender included, gets the message event with the
\* persisted row's id, and no session ever holds that id twice.
C2_BroadcastStep ==
    \A i \in 1..Len(handlers) :
        (/\ handlers[i].pc = "inserted"
         /\ handlers[i].outcome = "ok"
         /\ handlers' = Remove(handlers, i))
        => \A t \in Members(handlers[i].coinId) :
              /\ Len(NewEvents(t)) = 1
              /\ IsMessage(NewEvents(t)[1], handlers[i].data[1].id)
              /\ NewEvents(t)[1].coinId = handlers[i].coinId

C2_AtMostOnce ==
    \A s \in Sessions : \A id \in 1..(nextId - 1) : CountMessage(s, id) <= 1

C2_ExactlyOnce == []C2_AtMostOnce /\ [][C2_BroadcastStep]_vars

\* both sessions hold the same message, one of them being its author
C2_Witness ==
    \E s, t \in Sessions : \E id \in 1..(nextId - 1) :
        /\ s # t
        /\ CountMessage(s, id) = 1
        /\ CountMessage(t, id) = 1
        /\ \E k \in 1..Len(inbox[s]) :
              IsMessage(inbox[s][k], id) /\ inbox[s][k].message.userId = SubOf(s)

\* C3: a message event for room r is delivered to a session only if the
\* session is a member of r when the broadcast happens.
C3_MembersOnlyStep ==
    \A s \in Sessions : \A k \in 1..Len(NewEvents(s)) :
        NewEvents(s)[k].type = "message" => NewEvents(s)[k].coinId \in rooms[s]

C3_MembersOnly == [][C3_MembersOnlyStep]_vars

\* a bitcoin message reached one session while the other one, connected and
\* sitting in ethereum, received no message at all
C3_Witness ==
    \E s, t \in Sessions :
        /\ HasEvent(s, "message", "bitcoin")
        /\ status[t] = "connected"
        /\ joined[t] = "ethereum"
        /\ NoMessageEvents(t)

\* C4: when the user lookup finds no user or the insert fails, the step
\* that reports it gives the sender an error event and gives nobody else
\* anything; and a message event is only ever delivered for a row that the
\* table holds.
C4_FailureStep ==
    \A i \in 1..Len(handlers) :
        (/\ \/ handlers[i].pc = "lookup"
            \/ handlers[i].pc = "inserted" /\ handlers[i].outcome = "error"
         /\ handlers' = Remove(handlers, i))
        => /\ \A t \in Sessions \ {handlers[i].sess} : inbox'[t] = inbox[t]
           /\ LET new == NewEvents(handlers[i].sess)
              IN  /\ Len(new) = (IF status[handlers[i].sess] = "connected" THEN 1 ELSE 0)
                  /\ \A k \in 1..Len(new) : new[k].type = "error"

C4_BroadcastAfterInsertStep ==
    \A s \in Sessions : \A k \in 1..Len(NewEvents(s)) :
        NewEvents(s)[k].type = "message"
        => \E n \in 1..Len(chat_messages) :
              /\ chat_messages[n].id = NewEvents(s)[k].message.id
              /\ chat_messages[n].coin_id = NewEvents(s)[k].coinId

C4_AtMostOnceBroadcast ==
    [][C4_FailureStep /\ C4_BroadcastAfterInsertStep]_vars

\* a send failed at the insert: its sender holds the error, the other
\* session sits in a room, and no message was ever delivered or stored
C4_Witness ==
    \E s, t \in Sessions :
        /\ s # t
        /\ HasError(s, "Failed to send message")
        /\ joined[t] \in Coins
        /\ chat_messages = <<>>
        /\ \A u \in Sessions : NoMessageEvents(u)

\* C5: a join_room without a room id, and a send_message without a room id,
\* with a body that is empty after trimming or with a body longer than the
\* cap, gives the originating session one error event, gives nobody else
\* anything, stores no row, starts no database call and changes no room.
C5_Rejected(s) ==
    /\ \E text \in {"Coin ID is required", "Coin ID and message are required",
                    "Message too long (max 500 characters)"} :
          Receives(s, ErrorEvent(text))
    /\ \A t \in Sessions \ {s} : inbox'[t] = inbox[t]
    /\ UNCHANGED <<rooms, chat_messages, handlers>>

C5_InvalidSend(coinId, message) ==
    \/ coinId = NoCoin
    \/ message.core = 0
    \/ message.lead + message.core + message.trail > MaxMessageLength

C5_ValidationStep ==
    /\ \A s \in Sessions : JoinRoom(s, NoCoin) => C5_Rejected(s)
    /\ \A s \in Sessions : \A in \in SendInputs :
          (SendMessage(s, in[1], in[2]) /\ C5_InvalidSend(in[1], in[2]))
          => C5_Rejected(s)

C5_ValidationLocal == [][C5_ValidationStep]_vars

\* an over-long send was rejected while the other session sat in a room
C5_Witness ==
    \E s, t \in Sessions :
        /\ s # t
        /\ HasError(s, "Message too long (max 500 characters)")
        /\ joined[t] \in Coins
\* positions of the rows a history fetch of the room may return
Eligible(table, coinId) ==
    {n \in 1..Len(table) :
        table[n].coin_id = coinId /\ table[n].is_deleted = FALSE}

\* C6: the room_joined snapshot holds at most 50 messages, all of the joined
\* room, none soft-deleted, oldest first by creation time, and no message of
\* the room left out of it was created later than one that is in it.
C6_RecentHistory(data, table, coinId) ==
    /\ Len(data) = Min(50, Cardinality(Eligible(table, coinId)))
    /\ \A k \in 1..Len(data) :
          \E n \in Eligible(table, coinId) : table[n] = data[k]
    /\ \A j, k \in 1..Len(data) : j # k => data[j].id # data[k].id
    /\ \A n \in Eligible(table, coinId) :
          (\A k \in 1..Len(data) : data[k].id # table[n].id)
          => \A k \in 1..Len(data) : table[n].created_at <= data[k].created_at

C6_FetchStep ==
    \A i \in 1..Len(handlers) :
        (/\ handlers[i].pc = "fetch"
         /\ Len(handlers') = Len(handlers)
         /\ handlers'[i].pc = "fetched"
         /\ handlers'[i].outcome = "ok")
        => C6_RecentHistory(handlers'[i].data, chat_messages, handlers[i].coinId)

C6_SnapshotStep ==
    \A i \in 1..Len(handlers) :
        (/\ handlers[i].pc = "fetched"
         /\ handlers[i].outcome = "ok"
         /\ status[handlers[i].sess] = "connected"
         /\ handlers' = Remove(handlers, i))
        => LET new == NewEvents(handlers[i].sess)
               data == handlers[i].data
           IN  /\ Len(new) = 1
               /\ new[1].type = "room_joined"
               /\ new[1].coinId = handlers[i].coinId
               /\ Len(new[1].messages) <= 50
               /\ Len(new[1].messages) = Len(data)
               /\ {new[1].messages[k].id : k \in 1..Len(data)}
                      = {data[k].id : k \in 1..Len(data)}
               /\ \A k \in 1..Len(data) :
                      new[1].messages[k].coinId = handlers[i].coinId
               /\ \A j, k \in 1..Len(data) :
                      j < k => new[1].messages[j].createdAt
                                   <= new[1].messages[k].createdAt

C6_HistorySnapshot == [][C6_FetchStep /\ C6_SnapshotStep]_vars

\* a snapshot of exactly 50 messages was delivered for a room that holds
\* more than 50 undeleted rows
C6_Witness ==
    \E s \in Sessions : \E k \in 1..Len(inbox[s]) :
        /\ inbox[s][k].type = "room_joined"
        /\ Len(inbox[s][k].messages) = 50
        /\ Cardinality(Eligible(chat_messages, inbox[s][k].coinId)) > 50

\* C7: leave_room of a room the session is not in changes no membership and
\* notifies nobody, so leaving twice in a row yields one user_left in all.
C7_LeaveStep ==
    \A s \in Sessions : \A c \in Coins :
        (LeaveRoom(s, c) /\ c \notin rooms[s]) => UNCHANGED <<rooms, inbox>>

C7_LeaveIdempotent == [][C7_LeaveStep]_vars

\* C8: a valid join_room(b) by a member of another room a moves the session
\* from a to b and broadcasts user_left to the members of a; when the
\* history arrives the joiner alone gets room_joined and the other members
\* of b get user_joined.
C8_SwitchStep ==
    \A s \in Sessions : \A a, b \in Coins :
        (JoinRoom(s, b) /\ a \in rooms[s] /\ a # b)
        => /\ rooms'[s] \cap Coins = {b}
           /\ \A t \in Members(a) \ {s} : Receives(t, UserLeftEvent(s))

C8_SnapshotStep ==
    \A i \in 1..Len(handlers) :
        (/\ handlers[i].pc = "fetched"
         /\ handlers[i].outcome = "ok"
         /\ status[handlers[i].sess] = "connected"
         /\ handlers' = Remove(handlers, i))
        => LET s == handlers[i].sess
               b == handlers[i].coinId
           IN  /\ Len(NewEvents(s)) = 1
               /\ NewEvents(s)[1].type = "room_joined"
               /\ \A t \in Members(b) \ {s} : Receives(t, UserJoinedEvent(s))
               /\ \A t \in Sessions \ (Members(b) \cup {s}) : inbox'[t] = inbox[t]

C8_RoomSwitch == [][C8_SwitchStep /\ C8_SnapshotStep]_vars

\* C9: a disconnect removes the session from every room it was in and
\* broadcasts user_left to each of those rooms.
C9_DisconnectStep ==
    \A s \in Sessions :
        (status[s] = "connected" /\ status'[s] = "closed")
        => /\ rooms'[s] \cap Coins = {}
           /\ \A r \in rooms[s] \cap Coins :
                 \A t \in Members(r) \ {s} : Receives(t, UserLeftEvent(s))

C9_DisconnectNotice == [][C9_DisconnectStep]_vars

\* the message events of one room in a session's stream, pairwise in order
OrderedPairs(s) ==
    {p \in (1..Len(inbox[s])) \X (1..Len(inbox[s])) :
        /\ p[1] < p[2]
        /\ inbox[s][p[1]].type = "message"
        /\ inbox[s][p[2]].type = "message"
        /\ inbox[s][p[1]].coinId = inbox[s][p[2]].coinId}
PersistedBefore(id1, id2) ==
    \E m, n \in 1..Len(chat_messages) :
        m < n /\ chat_messages[m].id = id1 /\ chat_messages[n].id = id2
CompletedBefore(id1, id2) ==
    \E m, n \in 1..Len(completed) :
        m < n /\ completed[m] = id1 /\ completed[n] = id2

C18_SwitchBeforeFetch ==
    \A s \in Sessions :
        (Len(handlers') = Len(handlers) + 1 /\ handlers'[Len(handlers')].sess = s
            /\ handlers'[Len(handlers')].kind = "join")
        => rooms'[s] \cap Coins = {handlers'[Len(handlers')].coinId}

C18_FailedFetchStep ==
    \A i \in 1..Len(handlers) :
        (/\ handlers[i].pc = "fetched"
         /\ handlers[i].outcome \in {"error", "throw"}
         /\ status[handlers[i].sess] = "connected"
         /\ handlers' = Remove(handlers, i))
        => LET s == handlers[i].sess
           IN  /\ rooms' = rooms
               /\ Len(NewEvents(s)) = 1
               /\ NewEvents(s)[1].type = "error"
               /\ \A t \in Sessions \ {s} : inbox'[t] = inbox[t]

C18_HistoryBestEffort == [][C18_SwitchBeforeFetch /\ C18_FailedFetchStep]_vars

\* a session whose only join failed at the history query sits in the room
\* next to another member, holding an error and no snapshot
C18_Witness ==
    \E s \in Sessions : \E t \in Sessions \ {s} :
        /\ HasError(s, "Failed to load messages")
        /\ rooms[s] \cap Coins = {"ethereum"}
        /\ "ethereum" \in rooms[t]
        /\ ~HasEvent(s, "room_joined", "ethereum")
        /\ ~HasError(t, "Failed to load messages")

\* the rows of a room, whatever their soft-delete flag
RowsOf(table, coinId) == {table[n] : n \in {m \in 1..Len(table) : table[m].coin_id = coinId}}
\* the rows of a room a history fetch may return
LiveRowsOf(table, coinId) == {table[n] : n \in Eligible(table, coinId)}
\* the rows a history fetch returns
Fetched(table, coinId, tie) ==
    LET data == HistoryQuery(table, coinId, tie)
    IN  {data[k] : k \in 1..Len(data)}

\* C14: a run of cleanup_old_messages leaves in every room exactly its (at
\* most) 50 most recently created non-deleted messages: nothing but rows that
\* were there and not deleted, 50 of them or all if fewer, none of the rows
\* removed newer than a row kept, and a history fetch returns just these.
C14_SweepStep ==
    \A i \in 1..Len(sweeps) :
        (Len(sweeps') = Len(sweeps) /\ sweeps[i] = "pending" /\ sweeps'[i] = "ok")
        => \A c \in Coins :
              LET before == LiveRowsOf(chat_messages, c)
                  after == RowsOf(chat_messages', c)
              IN  /\ after \subseteq before
                  /\ Cardinality(after) = Min(Cardinality(before), 50)
                  /\ \A gone \in before \ after : \A kept \in after :
                        gone.created_at <= kept.created_at
                  /\ \A tie \in {"asc", "desc"} :
                        Fetched(chat_messages', c, tie) = after

C14_RetentionSweep == [][C14_SweepStep]_vars

\* a sweep has cut room bitcoin, seeded with more than 50 live rows, down to
\* 50 rows, and the oldest live row is among those gone
C14_Witness ==
    /\ Cardinality(LiveRowsOf(SeedTable, "bitcoin")) > 50
    /\ Cardinality(RowsOf(chat_messages, "bitcoin")) = 50
    /\ \E k \in 1..Len(sweepLog) : sweepLog[k] = "ok"
    /\ \E n \in 1..2 : SeedTable[n] \notin RowsOf(chat_messages, "bitcoin")

\* C19: a cleanup tick that fails, by a returned error or by a throw, is only
\* logged: no step of the sweep touches a session, a room or a handler, a
\* failed cleanup leaves the table as it was, and the timer stays armed so
\* that the next tick invokes the cleanup again.
C19_SweepStep ==
    sweeps' # sweeps
    => /\ UNCHANGED <<status, rooms, inbox, joined, handlers, completed>>
       /\ \A i \in 1..Len(sweeps) :
             (/\ Len(sweeps') = Len(sweeps)
              /\ sweeps[i] = "pending"
              /\ sweeps'[i] \in {"error", "throw"})
             => UNCHANGED chat_messages
       /\ \A i \in 1..Len(sweeps) :
             (sweeps[i] # "pending" /\ sweeps' = Remove(sweeps, i))
             => sweepLog' = Append(sweepLog, sweeps[i])

C19_TimerArmed == sweeper = "armed" /\ (budget > 0 => ENABLED Tick)

C19_SweepKeepsRunning == []C19_TimerArmed /\ [][C19_SweepStep]_vars

\* a tick's cleanup threw and was logged, and the cleanup of a later tick
\* has been run by the database
C19_Witness ==
    /\ sweepLog = <<"throw">>
    /\ sweeps = <<"ok">>
    /\ \E s \in Sessions : rooms[s] \cap Coins # {}

\* the request is one a handler answers through the cache
Cacheable(q) == ~(q.endpoint = "search" /\ q.query = Undefined)
\* the entries the cache holds under the key of request q
Held(q) == {e \in cache : e.key = CacheKey(Params(q))}
\* the step is the upstream returning successfully to the handler of q
Stores(i) ==
    /\ requests[i].pc = "upstream"
    /\ \/ requests' = Remove(requests, i) /\ responses'[Len(responses')].status = 200
       \/ Len(requests') = Len(requests) /\ requests'[i].pc = "upsert"

\* C11: a value set under a key with a ttl is what a get of that key returns
\* at every time less than ttl after the set; a get at ttl or later returns
\* nothing and removes the entry; no value of age ttl or more is returned.
C11_SetStep ==
    \A i \in 1..Len(requests) :
        Stores(i)
        => LET q == requests[i].req
           IN  /\ Cardinality({e \in cache' : e.key = CacheKey(Params(q))}) = 1
               /\ \A e \in cache' :
                     e.key = CacheKey(Params(q))
                     => /\ e.timestamp = clock
                        /\ e.ttl = TtlMinutes(q.endpoint) * 60 * 1000
                        /\ e.data = Payload(Params(q), clock)
               /\ \A e \in cache : e.key # CacheKey(Params(q)) => e \in cache'

C11_GetStep ==
    \A q \in urls :
        (GatewayRequest(q) /\ Cacheable(q))
        => /\ Cardinality(Held(q)) <= 1
           /\ \A e \in Held(q) :
                 clock - e.timestamp < e.ttl
                 => /\ responses' = Append(responses, Response(q, 200, e.data))
                    /\ cache' = cache
           /\ (\A e \in Held(q) : clock - e.timestamp >= e.ttl)
              => /\ responses' = responses
                 /\ cache' = cache \ Held(q)

C11_CacheRoundTrip == [][C11_SetStep /\ C11_GetStep]_vars

\* a request was answered from an entry in the last millisecond of its ttl
C11_Witness ==
    \E k \in 2..Len(responses) :
        /\ responses[k].status = 200
        /\ Len(upstreamCalls) = 1
        /\ clock - responses[k].body.lastUpdated
              = TtlMinutes(responses[k].req.endpoint) * 60 * 1000 - 1
        /\ \E e \in cache : e.data = responses[k].body

\* C12: a request whose key has an entry younger than the route's ttl (1 min
\* /market, 5 min /trending and /:id/market, 10 min /search) makes no
\* upstream call and is answered with exactly the cached payload, its
\* original lastUpdated included.
C12_HitStep ==
    \A q \in urls :
        (GatewayRequest(q) /\ Cacheable(q))
        => \A e \in Held(q) :
              clock - e.timestamp < TtlMinutes(q.endpoint) * 60 * 1000
              => /\ upstreamCalls' = upstreamCalls
                 /\ requests' = requests
                 /\ responses' = Append(responses, Response(q, 200, e.data))
                 /\ responses'[Len(responses')].body.lastUpdated = e.timestamp

C12_ServedFromCache == [][C12_HitStep]_vars

\* the key market_bitcoin,ethereum_usd_1_10 was populated by one upstream
\* call, and the same request, 59.999 s later, got the same payload back
C12_Witness ==
    /\ Len(responses) = 2
    /\ Len(upstreamCalls) = 1
    /\ responses[1].req = responses[2].req
    /\ responses[1].body = responses[2].body
    /\ responses[2].status = 200
    /\ CacheKey(Params(responses[2].req)) = "market_bitcoin,ethereum_usd_1_10"
    /\ clock = responses[2].body.lastUpdated + 59999

\* C13: the cache key of /market and of /:id/market names every parameter
\* passed upstream, so no such request is ever answered with a payload that
\* was fetched for other parameters.
C13_KeysEncodeParams ==
    \A k \in 1..Len(responses) :
        (responses[k].status = 200 /\ responses[k].req.endpoint \in {"market", "coin"})
        => responses[k].body.for = Params(responses[k].req)

\* the status of the response the step sends
Answered(code) ==
    /\ Len(responses') = Len(responses) + 1
    /\ responses'[Len(responses')].status = code
\* the step is one of the suspended handler i
Resumes(i) ==
    \/ requests' = Remove(requests, i)
    \/ Len(requests') = Len(requests) /\ requests'[i] # requests[i]
\* the table holds a row with this id
Retrievable(table, id) == RowsWithId(table, id) # {}

\* C15: DELETE /messages/:messageId answers 404 and changes nothing when no
\* such message exists, answers 403 and leaves the message in place when the
\* caller's user id is not the author's, and removes a message only for its
\* author, answering 200 (database failures aside, which answer 500).
C15_LookupStep ==
    \A i \in 1..Len(requests) :
        (requests[i].pc = "select" /\ Resumes(i) /\ faults' = faults)
        => LET q == requests[i].req
               hit == RowsWithId(chat_messages, q.messageId)
           IN  /\ hit = {} => Answered(404) /\ chat_messages' = chat_messages
               /\ \A k \in hit :
                     chat_messages[k].user_id # GetUserIdFromSub(users, q.caller)
                     => /\ Answered(403)
                        /\ chat_messages' = chat_messages
                        /\ requests' = Remove(requests, i)

C15_RemovalStep ==
    \A id \in 1..nextId :
        (Retrievable(chat_messages, id) /\ ~Retrievable(chat_messages', id))
        => /\ Answered(200)
           /\ responses'[Len(responses')].req.method = "DELETE"
           /\ responses'[Len(responses')].req.messageId = id
           /\ \A k \in RowsWithId(chat_messages, id) :
                 chat_messages[k].user_id
                    = GetUserIdFromSub(users, responses'[Len(responses')].req.caller)

C15_DeleteByAuthorOnly == [][C15_LookupStep /\ C15_RemovalStep]_vars

\* user u1 was refused the delete of u2's message, which is still there,
\* and has deleted a message of their own
C15_Witness ==
    /\ \E k \in 1..Len(responses) :
          /\ responses[k].status = 403
          /\ responses[k].req.caller = "u1"
          /\ responses[k].req.messageId = 2
    /\ \E k \in 1..Len(responses) :
          /\ responses[k].status = 200
          /\ responses[k].req.caller = "u1"
          /\ responses[k].req.messageId = 1
    /\ Retrievable(chat_messages, 2)
    /\ ~Retrievable(chat_messages, 1)

\* C16: a POST /messages that is refused (401 no user, 400 validation, among
\* them every content longer than 1000 characters, 404 user or coin unknown)
\* inserts no row: every row inserted answers a 201 to a valid request of a
\* known user for a known coin.
C16_RefusedStep ==
    (\E code \in {400, 401, 404} : Answered(code))
    => chat_messages' = chat_messages /\ nextId' = nextId

C16_Inserted ==
    /\ nextId - (Len(RestTable) + 1)
          = Cardinality({k \in 1..Len(responses) : responses[k].status = 201})
    /\ \A k \in 1..Len(responses) :
          LET q == responses[k].req
          IN  /\ responses[k].status = 201
                 => /\ q.method = "POST"
                    /\ GetUserIdFromSub(users, q.caller) # NoUser
                    /\ q.coinId \in CoinsTable
                    /\ BodyLength(q.content) \in 1..1000
              /\ (q.method = "POST" /\ q.caller # NoUser
                    /\ BodyLength(q.content) > 1000)
                 => responses[k].status = 400

C16_NoInsertOnRefusal == []C16_Inserted /\ [][C16_RefusedStep]_vars

\* a post of 1001 characters was refused with 400 and one of 1000 characters
\* created the only new row
C16_Witness ==
    /\ \E k \in 1..Len(responses) :
          responses[k].status = 400 /\ BodyLength(responses[k].req.content) = 1001
    /\ \E k \in 1..Len(responses) :
          responses[k].status = 201 /\ BodyLength(responses[k].req.content) = 1000
    /\ Len(chat_messages) = Len(RestTable) + 1

\* the chat connection of s presented a token that verification rejects, or
\* its verification has ended in an error
FailedVerification(s) ==
    \/ \E i \in 1..Len(auths) :
          auths[i].kind = "socket" /\ auths[i].who = s /\ auths[i].token # "good"
    \/ \E k \in 1..Len(authLog) :
          /\ authLog[k].kind = "socket" /\ authLog[k].who = s
          /\ authLog[k].token # "good" \/ authLog[k].outcome = "refused"
\* the chat connection of s has finished its verification
VerificationEnded(s) ==
    \E k \in 1..Len(authLog) : authLog[k].kind = "socket" /\ authLog[k].who = s

\* C17: a chat-namespace connection whose identity verification fails (no
\* token, or a token that verification rejects) is refused: it is never
\* connected, no join_room, send_message or leave_room handler runs for it, it
\* receives nothing and it is a member of no room.
C17_RefusedOnFailure ==
    \A s \in Sessions :
        FailedVerification(s)
        => /\ status[s] \in {"connecting", "refused"}
           /\ VerificationEnded(s) => status[s] = "refused"
           /\ rooms[s] = {}
           /\ joined[s] = NoRoom
           /\ inbox[s] = <<>>
           /\ \A i \in 1..Len(handlers) : handlers[i].sess # s
\* C17 happens: one connection was refused for a token that verification
\* rejected, one for a missing token, while a verified connection is in a room
C17_Witness ==
    /\ status["s1"] = "refused"
    /\ \E k \in 1..Len(authLog) :
          authLog[k].who = "s1" /\ authLog[k].kind = "socket"
          /\ authLog[k].token = "bad"
    /\ status["s2"] = "connected"
    /\ "bitcoin" \in rooms["s2"]

\* C20: for each subject at most one user record exists, a subject whose
\* authentication has succeeded has exactly one, and, the database answering
\* every query, each authentication with a valid token completes successfully,
\* also when several overlap on the subject's first contact.
C20_OneRecordAllSucceed ==
    /\ \A sub \in Subjects :
          Cardinality({k \in 1..Len(users) : users[k].auth0_sub = sub}) <= 1
    /\ \A k \in 1..Len(authLog) :
          authLog[k].outcome = "next" => Known(users, authLog[k].sub)
    /\ faults = MaxFaults
       => \A k \in 1..Len(authLog) :
             authLog[k].token = "good" => authLog[k].outcome = "next"

\* the entries of a cache under other keys than key
OtherKeys(c, key) == {e \in c : e.key # key}
\* the ttlMinutes the handlers use
TtlChoices == {TtlMinutes(e) : e \in {"market", "coin", "search", "trending"}}

\* C21: setCachedData(k, v2, ttl2) replaces any entry k has: afterwards a get
\* of k returns v2 up to the last millisecond before ttl2 has passed since
\* this set and nothing from then on, whatever the earlier entry's insertion
\* time and ttl were, and the entries under other keys are unchanged.
C21_AnyTtl ==
    \A q \in urls : \A m \in TtlChoices :
        Cacheable(q)
        => LET k == CacheKey(Params(q))
               v2 == Payload(Params(q), clock)
               c2 == SetCachedData(cache, k, v2, m, clock)
           IN  /\ GetCachedData(c2, k, clock) = v2
               /\ GetCachedData(c2, k, clock + m * MsPerMinute - 1) = v2
               /\ GetCachedData(c2, k, clock + m * MsPerMinute) = NoData
               /\ Cardinality(Lookup(c2, k)) = 1
               /\ OtherKeys(c2, k) = OtherKeys(cache, k)

C21_OverwriteStep ==
    \A i \in 1..Len(requests) :
        (Stores(i) /\ Held(requests[i].req) # {})
        => LET q == requests[i].req
               k == CacheKey(Params(q))
               v2 == Payload(Params(q), clock)
               ttl2 == TtlMinutes(q.endpoint) * MsPerMinute
           IN  /\ Cardinality(Lookup(cache', k)) = 1
               /\ GetCachedData(cache', k, clock) = v2
               /\ GetCachedData(cache', k, clock + ttl2 - 1) = v2
               /\ GetCachedData(cache', k, clock + ttl2) = NoData
               /\ OtherKeys(cache', k) = OtherKeys(cache, k)

C21_Overwrite == []C21_AnyTtl /\ [][C21_OverwriteStep]_vars

\* two overlapping requests for one key both went upstream; the second result
\* was stored over the first, which had not expired, and the cache holds it
C21_Witness ==
    /\ Len(responses) = 2
    /\ Len(upstreamCalls) = 2
    /\ responses[1].req = responses[2].req
    /\ responses[1].status = 200 /\ responses[2].status = 200
    /\ responses[1].body.lastUpdated < responses[2].body.lastUpdated
    /\ clock - responses[1].body.lastUpdated
          < TtlMinutes(responses[1].req.endpoint) * MsPerMinute
    /\ \E e \in cache : e.data = responses[2].body /\ e.timestamp = clock

\* the rows of the table a GET /messages request selects from
Matching(q) ==
    {k \in 1..Len(chat_messages) :
        /\ chat_messages[k].coin_id = q.coinId
        /\ q.before = Absent \/ \A b \in q.before : chat_messages[k].created_at < b}
\* how many of them were created after time at, and not before it
NewerThan(q, at) ==
    Cardinality({k \in Matching(q) : chat_messages[k].created_at > at})
NotOlderThan(q, at) ==
    Cardinality({k \in Matching(q) : chat_messages[k].created_at >= at})

\* C22: a successful GET /messages returns the page [offset, offset + limit)
\* of the requested room's messages ranked newest first, listed oldest
\* first, and nothing of another room; hasMore is true exactly when the
\* number of messages returned equals limit, and nextOffset = offset + limit.
C22_Page ==
    \A k \in 1..Len(responses) :
        responses[k].status = 200
        => LET q == responses[k].req
               limit == IF q.limit = Absent THEN 50 ELSE CHOOSE l \in q.limit : TRUE
               offset == IF q.offset = Absent THEN 0 ELSE CHOOSE o \in q.offset : TRUE
               ms == responses[k].body.messages
               n == Cardinality(Matching(q))
           IN  /\ Len(ms) = (IF n - offset > limit THEN limit
                              ELSE IF n > offset THEN n - offset ELSE 0)
               /\ \A j \in 1..Len(ms) :
                     /\ ms[j].coinId = q.coinId
                     /\ \E r \in Matching(q) :
                           FormatMessage(chat_messages[r]) = ms[j]
                     /\ j > 1 => ms[j - 1].createdAt <= ms[j].createdAt
                     /\ NewerThan(q, ms[j].createdAt) <= offset + Len(ms) - j
                     /\ NotOlderThan(q, ms[j].createdAt) >= offset + Len(ms) - j + 1
               /\ \A i, j \in 1..Len(ms) : i # j => ms[i].id # ms[j].id
               /\ responses[k].body.hasMore = (Len(ms) = limit)
               /\ responses[k].body.nextOffset = offset + limit
\* a page of two of bitcoin's five messages was returned from offset 1, oldest
\* first, with hasMore set, and a last page came back short, without it
C22_Witness ==
    /\ Len(responses) = 2
    /\ responses[1].status = 200 /\ responses[2].status = 200
    /\ responses[1].req = PageRequest("bitcoin", {2}, {1}, Absent)
    /\ Len(responses[1].body.messages) = 2
    /\ responses[1].body.messages[1].createdAt < responses[1].body.messages[2].createdAt
    /\ responses[1].body.hasMore
    /\ responses[2].req = PageRequest("bitcoin", {3}, {3}, Absent)
    /\ Len(responses[2].body.messages) = 2
    /\ ~responses[2].body.hasMore

\* C23: whenever a join_room handler of session s emits room_joined for room
\* r to s, or user_joined to the members of r, s is a member of r at that
\* moment, whatever s did while the history query was under way.
C23_JoinNoticeStep ==
    \A i \in 1..Len(handlers) :
        (/\ handlers[i].kind = "join"
         /\ handlers' = Remove(handlers, i)
         /\ \E t \in Sessions : \E k \in 1..Len(NewEvents(t)) :
               NewEvents(t)[k].type \in {"room_joined", "user_joined"})
        => handlers[i].coinId \in rooms[handlers[i].sess]

C23_NoticesNameActualRoom == [][C23_JoinNoticeStep]_vars

\* the join_room requests with a room id that session s has issued: those
\* still under way and those that have answered s (sessions start in no room)
JoinsIssued(s) ==
    Cardinality({i \in 1..Len(handlers) :
                    handlers[i].kind = "join" /\ handlers[i].sess = s})
    + Cardinality({k \in 1..Len(inbox[s]) :
                    \/ inbox[s][k].type = "room_joined"
                    \/ /\ inbox[s][k].type = "error"
                       /\ inbox[s][k].text \in {"Failed to load messages",
                                                 "Failed to join room"}})
\* the ids in the snapshot of a room_joined event
SnapshotIds(e) == {e.messages[n].id : n \in 1..Len(e.messages)}

\* C24: for a single join_room(r) by a session, no message of another session
\* reaches the session both as a live message event and inside that join's
\* room_joined snapshot.
C24_NoDuplicate ==
    \A s \in Sessions :
        JoinsIssued(s) = 1
        => \A k \in 1..Len(inbox[s]) :
              inbox[s][k].type = "room_joined"
              => \A j \in 1..Len(inbox[s]) :
                    (/\ inbox[s][j].type = "message"
                     /\ inbox[s][j].message.userId # SubOf(s))
                    => inbox[s][j].message.id \notin SnapshotIds(inbox[s][k])

\* the ids of the messages session s has received live
LiveIds(s) ==
    {inbox[s][j].message.id : j \in {n \in 1..Len(inbox[s]) : inbox[s][n].type = "message"}}
\* the ids of the rows of room r whose send_message has finished
SentTo(r) ==
    {chat_messages[n].id : n \in {m \in 1..Len(chat_messages) :
        chat_messages[m].coin_id = r /\ \E c \in 1..Len(completed) :
            completed[c] = chat_messages[m].id}}

\* C25: when a session has joined room r once, has received that join's
\* room_joined snapshot and is still in r, every message that a send_message
\* has persisted to r and finished with (fewer than 50 rows in r) is in the
\* snapshot or has reached the session as a live message event.
C25_NoGap ==
    \A s \in Sessions : \A k \in 1..Len(inbox[s]) :
        (/\ JoinsIssued(s) = 1
         /\ inbox[s][k].type = "room_joined"
         /\ inbox[s][k].coinId \in rooms[s]
         /\ Len(chat_messages) < HistoryLimit)
        => SentTo(inbox[s][k].coinId) \subseteq SnapshotIds(inbox[s][k]) \cup LiveIds(s)
\* one session joined bitcoin and got an empty snapshot; the message another
\* session sent meanwhile reached it live
C25_Witness ==
    /\ JoinsIssued("s1") = 1
    /\ Len(inbox["s1"]) = 2
    /\ inbox["s1"][1].type = "room_joined"
    /\ inbox["s1"][1].coinId = "bitcoin"
    /\ inbox["s1"][1].messages = <<>>
    /\ inbox["s1"][2].type = "message"
    /\ inbox["s1"][2].message.userId = SubOf("s2")
    /\ "bitcoin" \in rooms["s1"]
    /\ SentTo("bitcoin") = {1}

\* C26: every chat_messages row created by send_message for room r, and so
\* every message broadcast to the members of r, comes from a send_message that
\* was handled while its session was a member of r: the handler goes on to
\* its database calls only for a room the session is in, and each new row is
\* the row of such a handler.
C26_HandledStep ==
    \A s \in Sessions :
        (/\ Len(handlers') = Len(handlers) + 1
         /\ handlers'[Len(handlers')].kind = "send"
         /\ handlers'[Len(handlers')].sess = s)
        => handlers'[Len(handlers')].coinId \in rooms[s]

C26_RowStep ==
    Len(chat_messages') = Len(chat_messages) + 1
    => \E i \in 1..Len(handlers) :
          /\ handlers[i].kind = "send"
          /\ handlers'[i].data = <<chat_messages'[Len(chat_messages')]>>
          /\ handlers[i].coinId = chat_messages'[Len(chat_messages')].coin_id

C26_OnlyMembersWrite == [][C26_HandledStep /\ C26_RowStep]_vars

\* C27: every chat-namespace connection attempt is resolved: once the auth
\* middleware has run to its end for a handshake, the session has been
\* admitted or refused with an error, also when the token is valid and the
\* lookup or the insert of the user record fails.
C27_Resolved ==
    /\ \A s \in Sessions : status[s] # "hung"
    /\ \A k \in 1..Len(authLog) :
          authLog[k].kind = "socket" => authLog[k].outcome \in {"next", "refused"}

\* C28: every chat message row created through the REST POST (and likewise
\* through the socket's send_message, with its cap of 500) stores a body
\* that is non-empty after trimming and no longer than the entry point's cap,
\* 1000 for REST.
C28_StoredBodies ==
    \A n \in 1..Len(chat_messages) :
        chat_messages[n].id > Len(RestTable)
        => /\ BodyLength(Trim(chat_messages[n].content)) >= 1
           /\ BodyLength(chat_messages[n].content) <= MaxRestLength

\* C29: a retention sweep does not change what a join delivers: for every
\* room the history query returns after a run of cleanup_old_messages what it
\* returned right before it, and a second run right after the first removes
\* nothing more.
C29_SweepStep ==
    \A i \in 1..Len(sweeps) :
        (Len(sweeps') = Len(sweeps) /\ sweeps[i] = "pending" /\ sweeps'[i] = "ok")
        => /\ \A c \in Coins : \A tie \in {"asc", "desc"} :
                 HistoryQuery(chat_messages', c, tie)
                     = HistoryQuery(chat_messages, c, tie)
           /\ \A tie \in {"asc", "desc"} :
                 CleanupOldMessages(chat_messages', tie) = chat_messages'

C29_SweepKeepsSnapshot == [][C29_SweepStep]_vars

\* the sockets of a namespace that are connected
Connected(nsp) ==
    {k \in 1..Len(opened) : opened[k].nsp = nsp /\ opened[k].state = "connected"}

\* C30: after any sequence of connect(token) and disconnect() calls of the
\* SocketManager at most one chat socket and at most one main socket that it
\* created are connected, and right after a disconnect() none is.
C30_AtMostOne ==
    /\ Cardinality(Connected("/chat")) <= 1
    /\ Cardinality(Connected("/")) <= 1

C30_DisconnectStep ==
    (\E c \in Components : mounts[c].mounted /\ ~mounts'[c].mounted)
    => \A k \in 1..Len(opened') : opened'[k].state # "connected"

C30_OneConnection == []C30_AtMostOne /\ [][C30_DisconnectStep]_vars

====
